---- MODULE Spec2Model ----
(***************************************************************************)
(* Model of medanalysis_ollama.py: the Streamlit script (page load with    *)
(* its two liveness probes, the image and the text button handlers) and    *)
(* the two orchestrators analyze_medical_image / analyze_medical_text with *)
(* their retry loops.                                                      *)
(*                                                                         *)
(* Text is a sequence of characters.  The two emoji the script scans for   *)
(* are the single characters CrossMark and WarnSign.  Fixed wording of a   *)
(* message is kept as one element per literal fragment.                    *)
(***************************************************************************)
EXTENDS Integers, Sequences, FiniteSets, TLC

\* ------------------------------------------------------------------ bounds
MaxRetriesBound == 2
MaxChunks == 3
MaxModels == 2

\* ------------------------------------------------------- program constants
DefaultMaxRetries == 2
NewWidth == 800

CrossMark == "[cross-mark]"
WarnSign == "[warning-sign]"
None == <<"None">>

\* The literal "### 1." searched for at line 134.
ReportMarker == <<"#", "#", "#", " ", "1", ".">>

\* MEDGEMMA_MODEL (line 12), shortened to four characters.
MEDGEMMA_MODEL == <<"m", "g", ":", "q">>

\* ------------------------------------------------------------ str methods
\* str.find(sub): lowest 0-based index where sub occurs, -1 when it does not.
Find(s, sub) ==
    LET hits == { i \in 0..(Len(s) - Len(sub)) :
                    SubSeq(s, i + 1, i + Len(sub)) = sub }
    IN  IF hits = {} THEN -1
        ELSE CHOOSE i \in hits : \A j \in hits : i <= j

\* s[start:]
SliceFrom(s, start) == SubSeq(s, start + 1, Len(s))

\* sub in s
Contains(s, sub) == Find(s, sub) # -1

\* Mutant of Strip: the text is taken as typed.
StripNothing(s) == s

\* str.strip(): leading and trailing blanks removed.
Strip(s) ==
    LET nonblank == { i \in 1..Len(s) : s[i] # " " }
    IN  IF nonblank = {} THEN <<>>
        ELSE LET lo == CHOOSE i \in nonblank : \A j \in nonblank : i <= j
                 hi == CHOOSE i \in nonblank : \A j \in nonblank : j <= i
             IN  SubSeq(s, lo, hi)

\* str(response.status_code) inside the f-strings of lines 142 and 207.
StatusText(code) ==
    CASE code = 404 -> "404"
      [] code = 500 -> "500"
      [] code = 200 -> "200"
      [] OTHER -> "???"

\* ------------------------------------------------------------ input sets
RECURSIVE SeqsUpTo(_, _)
SeqsUpTo(S, n) ==
    IF n = 0 THEN { <<>> }
    ELSE LET shorter == SeqsUpTo(S, n - 1)
         IN  shorter \cup { Append(s, x) : s \in shorter, x \in S }

RECURSIVE Concat(_)
Concat(ss) == IF ss = <<>> THEN <<>> ELSE Head(ss) \o Concat(Tail(ss))

\* Pieces a generated text is put together from: the marker, ordinary
\* prose, a run of '#' that overlaps the start of a marker, and the two
\* emoji.
Chunks == { ReportMarker, <<"a">>, <<"#", "#">>, <<CrossMark>>, <<WarnSign>> }

\* Values of result["response"].
Texts == { Concat(cs) : cs \in SeqsUpTo(Chunks, MaxChunks) }

\* Bodies of non-200 responses (response.text).
Bodies == { <<>>, <<"b">> }

\* Contents of the text area.
TextInputs == { <<>>, <<" ">>, <<" ", " ">>, <<"a">>, <<" ", "a", " ">> }

\* Uploaded files: declared MIME type, whether PIL can decode the bytes
\* (the uploader also accepts "dcm", which PIL cannot open), mode and size.
Images ==
    { [type |-> "image/png", decodable |-> TRUE, mode |-> "RGB",
       width |-> 800, height |-> 600],
      [type |-> "image/jpeg", decodable |-> TRUE, mode |-> "L",
       width |-> 1600, height |-> 1200],
      [type |-> "image/png", decodable |-> TRUE, mode |-> "RGB",
       width |-> 1601, height |-> 2],
      [type |-> "application/dicom", decodable |-> FALSE, mode |-> "none",
       width |-> 1, height |-> 1] }

NoFile == [type |-> "none", decodable |-> FALSE, mode |-> "none",
           width |-> 0, height |-> 0]

\* Names the server may list.
ModelNames ==
    { MEDGEMMA_MODEL, <<"r", "/">> \o MEDGEMMA_MODEL, <<"m", "g">>,
      <<"l", "l">> }

\* What one GET /api/tags can come to.
ProbeOutcomes ==
    { [kind |-> "exception", status |-> 0, models |-> <<>>],
      [kind |-> "badjson", status |-> 200, models |-> <<>>],
      [kind |-> "response", status |-> 500, models |-> <<>>] }
    \cup { [kind |-> "response", status |-> 200, models |-> ms] :
             ms \in SeqsUpTo(ModelNames, MaxModels) }

\* What one POST /api/generate can come to.  "badjson" is a 200 whose
\* body is not JSON or has no "response" key.
PostOutcomes ==
    { [kind |-> k, status |-> 0, text |-> <<>>] :
        k \in { "ConnectionError", "ConnectTimeout", "ReadTimeout",
                "RequestException" } }
    \cup { [kind |-> "badjson", status |-> 200, text |-> <<>>] }
    \cup { [kind |-> "response", status |-> c, text |-> b] :
             c \in { 404, 500 }, b \in Bodies }
    \cup { [kind |-> "response", status |-> 200, text |-> t] : t \in Texts }

\* -------------------------------------------------- connectivity prober
\* Lines 52-63.
check_ollama_connection(p) ==
    IF p.kind = "response" /\ p.status = 200
    THEN <<TRUE, p.models>>
    ELSE <<FALSE, <<>>>>

\* Mutant of check_model_loaded: the name must match exactly.
check_model_loadedExact(model_name, p) ==
    /\ check_ollama_connection(p)[1]
    /\ \E i \in 1..Len(p.models) : p.models[i] = model_name

\* Lines 65-71.
check_model_loaded(model_name, p) ==
    LET r == check_ollama_connection(p)
    IN  IF ~r[1] THEN FALSE
        ELSE \E i \in 1..Len(r[2]) : Contains(r[2][i], model_name)

\* ------------------------------------------------------- orchestrators
\* int(new_width / (width / height)), lines 88-91, in exact arithmetic;
\* only whether the result is at least 1 is used.
NewHeight(img) == (NewWidth * img.height) \div img.width

\* Lines 81-97: TRUE when open, convert, resize, save and encode all pass.
\* PIL refuses to open undecodable bytes and refuses a resize to height 0.
PreprocessOk(img) == img.decodable /\ NewHeight(img) >= 1

\* Mutant of CleanReport: the report starts at the last marker.
CleanReportLastMarker(response_content) ==
    LET hits == { i \in 0..(Len(response_content) - Len(ReportMarker)) :
                    SubSeq(response_content, i + 1, i + Len(ReportMarker))
                      = ReportMarker }
    IN  IF hits = {} THEN response_content
        ELSE SliceFrom(response_content,
                       CHOOSE i \in hits : \A j \in hits : j <= i)

\* Lines 134-138.
CleanReport(response_content) ==
    LET report_start == Find(response_content, ReportMarker)
    IN  IF report_start # -1
        THEN SliceFrom(response_content, report_start)
        ELSE response_content

\* Lines 129, 203: the attempt ends the call with a report.
Usable(o) == o.kind = "response" /\ o.status = 200

\* Lines 142-149: last_error of a failed image attempt.  ConnectTimeout
\* derives from ConnectionError and is caught by the first handler.
ImageError(o) ==
    CASE o.kind = "response" ->
           <<CrossMark, " Error: HTTP ", StatusText(o.status), " - ">> \o o.text
      [] o.kind \in { "ConnectionError", "ConnectTimeout" } ->
           <<CrossMark, " Connection Error: Cannot connect to Ollama.">>
      [] o.kind = "ReadTimeout" ->
           <<CrossMark, " Timeout Error: Request to MedGemma took too long.">>
      [] OTHER ->
           <<WarnSign, " Unexpected Error: ", o.kind>>

\* Lines 207-210: last_error of a failed text attempt.
TextError(o) ==
    CASE o.kind = "response" ->
           <<CrossMark, " Error analyzing text: HTTP ", StatusText(o.status),
             " - ">> \o o.text
      [] OTHER ->
           <<CrossMark, " Text analysis error: ", o.kind>>

\* The outcome of an image attempt whose preprocessing raised.
PreprocessFailed == [kind |-> "PreprocessError", status |-> 0, text |-> <<>>]

\* Mutant of LoopCondition: the last attempt is dropped.
LoopConditionStrict(rc, mr) == rc < mr

\* Lines 78 and 161: while retry_count <= max_retries.
LoopCondition(rc, mr) == rc <= mr

\* str(max_retries) inside the f-strings of lines 154 and 216.
IntText(n) ==
    CASE n = 0 -> "0" [] n = 1 -> "1" [] n = 2 -> "2" [] n = 3 -> "3"
      [] n = 4 -> "4" [] n = 5 -> "5" [] OTHER -> "many"

\* Lines 140 and 205: the report is returned as it stands.
Success(text) == text

\* Lines 154 and 216: f"{last_error} (after {max_retries} retries)".
Failure(err, mr) == err \o <<" (after ", IntText(mr), " retries)">>

\* Mutant of RecordError: the first error is kept.
RecordFirstError(old, new) == IF old = None THEN new ELSE old

\* Lines 142-149 and 207-210: last_error is overwritten by each failure.
RecordError(old, new) == new

\* Lines 313, 352: the test for either emoji anywhere in the report.
LooksLikeError(r) == Contains(r, <<CrossMark>>) \/ Contains(r, <<WarnSign>>)

\* Line 305: f"temp_uploaded_image.{uploaded_file.type.split('/')[1]}".
ImagePath(img) ==
    CASE img.type = "image/png" -> "temp_uploaded_image.png"
      [] img.type = "image/jpeg" -> "temp_uploaded_image.jpeg"
      [] img.type = "application/dicom" -> "temp_uploaded_image.dicom"
      [] OTHER -> "temp_uploaded_image."

\* Mutant of CleanUp: the file is left behind.
CleanUpSkipped(fs, path) == fs

\* Lines 321-322: if os.path.exists(image_path): os.remove(image_path).
CleanUp(fs, path) == fs \ { path }

\* ------------------------------------------------------------------ state
VARIABLES
    pc,             \* where the script run stands; "idle" between runs
    pressed,        \* the button whose press started this run, or "none"
    uploaded_file,  \* line 273
    text_input,     \* line 331
    is_connected,   \* line 239
    model_loaded,   \* line 240
    listed,         \* the second probe answered 200 and listed a name
                    \* that has MEDGEMMA_MODEL inside it
    max_retries,    \* parameter of the orchestrator being run
    retry_count,    \* lines 75, 158
    last_error,     \* lines 76, 159
    report,         \* lines 310, 350: the string the orchestrator returned
    variant,        \* which return statement produced report
    response_content, \* line 131: result["response"] of the 200 answer
    shown,          \* what the handler put on the page in this run
    files,          \* temporary files on disk
    gets,           \* GET /api/tags issued in this run
    posts,          \* POST /api/generate issued in this run
    sleeps,         \* time.sleep(2) taken in this run
    preprocessings, \* times lines 81-97 were entered in this run
    calls,          \* orchestrator invocations in this run
    attempts,       \* loop bodies entered in this run
    lastFailure     \* outcome of the most recent failed attempt

vars == <<pc, pressed, uploaded_file, text_input, is_connected, model_loaded,
          listed, response_content,
          max_retries, retry_count, last_error, report, variant, shown, files,
          gets, posts, sleeps, preprocessings, calls, attempts, lastFailure>>

NoFailure == [kind |-> "none", status |-> 0, text |-> <<>>]

Init ==
    /\ pc = "idle"
    /\ pressed = "none"
    /\ uploaded_file = NoFile
    /\ text_input = <<>>
    /\ is_connected = FALSE
    /\ model_loaded = FALSE
    /\ listed = FALSE
    /\ response_content = <<>>
    /\ max_retries = DefaultMaxRetries
    /\ retry_count = 0
    /\ last_error = None
    /\ report = <<>>
    /\ variant = "none"
    /\ shown = <<>>
    /\ files = {}
    /\ gets = 0
    /\ posts = 0
    /\ sleeps = 0
    /\ preprocessings = 0
    /\ calls = 0
    /\ attempts = 0
    /\ lastFailure = NoFailure

\* What a script run starts from: Streamlit executes the file top to bottom
\* again, so every name of the previous run is gone and the page is redrawn.
StartRun(button, file, text) ==
    /\ pc = "idle"
    /\ pc' = "probe1"
    /\ pressed' = button
    /\ uploaded_file' = file
    /\ text_input' = text
    /\ is_connected' = FALSE
    /\ model_loaded' = FALSE
    /\ listed' = FALSE
    /\ response_content' = <<>>
    /\ max_retries' = DefaultMaxRetries
    /\ retry_count' = 0
    /\ last_error' = None
    /\ report' = <<>>
    /\ variant' = "none"
    /\ shown' = <<>>
    /\ gets' = 0
    /\ posts' = 0
    /\ sleeps' = 0
    /\ preprocessings' = 0
    /\ calls' = 0
    /\ attempts' = 0
    /\ lastFailure' = NoFailure
    /\ UNCHANGED files

\* Line 297: the button is there only when a file is uploaded (line 278).
PressImageButton == \E img \in Images : StartRun("image", img, <<>>)

\* Line 339.
PressTextButton == \E t \in TextInputs : StartRun("text", NoFile, t)

\* Any other widget interaction reruns the script with no button pressed.
Rerun == StartRun("none", NoFile, <<>>)

\* needle occurs somewhere in hay.
Inside(needle, hay) ==
    \E k \in 1..Len(hay) :
        /\ k + Len(needle) - 1 <= Len(hay)
        /\ \A j \in 1..Len(needle) : hay[k + j - 1] = needle[j]

\* Line 239: is_connected, available_models = check_ollama_connection().
\* available_models only feeds the sidebar listing and is not kept.
Probe1 ==
    /\ pc = "probe1"
    /\ \E p \in ProbeOutcomes :
         is_connected' = check_ollama_connection(p)[1]
    /\ gets' = gets + 1
    /\ pc' = "probe2"
    /\ UNCHANGED <<pressed, uploaded_file, text_input, model_loaded, listed,
                   response_content,
                   max_retries, retry_count, last_error, report, variant, shown,
                   files, posts, sleeps, preprocessings, calls, attempts,
                   lastFailure>>

\* Line 240: model_loaded = check_model_loaded(MEDGEMMA_MODEL), which
\* probes the server a second time.
Probe2 ==
    /\ pc = "probe2"
    /\ \E p \in ProbeOutcomes :
         /\ model_loaded' = check_model_loaded(MEDGEMMA_MODEL, p)
         /\ listed' = (/\ p.kind = "response"
                       /\ p.status = 200
                       /\ \E i \in 1..Len(p.models) :
                            Inside(MEDGEMMA_MODEL, p.models[i]))
    /\ gets' = gets + 1
    /\ pc' = "body"
    /\ UNCHANGED <<pressed, uploaded_file, text_input, is_connected,
                   response_content,
                   max_retries, retry_count, last_error, report, variant, shown,
                   files, posts, sleeps, preprocessings, calls, attempts,
                   lastFailure>>

Msg(widget, text) == [widget |-> widget, text |-> text]

NotConnectedText == <<CrossMark, " Cannot analyze: Ollama is not connected.">>
NotLoadedText == <<CrossMark, " Required model is not loaded.">>
EmptyTextText == <<WarnSign, " Please enter some medical text to analyze.">>
TimeoutHint == <<"If you're experiencing timeout errors, ...">>

\* Lines 268-324 with no button pressed, and 326-357 likewise.
NoButton ==
    /\ pc = "body"
    /\ pressed = "none"
    /\ pc' = "idle"
    /\ UNCHANGED <<pressed, uploaded_file, text_input, is_connected,
                   listed, response_content,
                   model_loaded, max_retries, retry_count, last_error, report,
                   variant, shown, files, gets, posts, sleeps, preprocessings,
                   calls, attempts, lastFailure>>

\* The orchestrator is entered: lines 75-76 and 158-159.  The handlers pass
\* no max_retries (the default 2 applies); other callers may pass any
\* value >= 0.
EnterCall(where) ==
    /\ pc' = where
    /\ max_retries' \in 0..MaxRetriesBound
    /\ retry_count' = 0
    /\ last_error' = None
    /\ calls' = calls + 1

\* Lines 297-310: the image button handler up to the orchestrator call.
ImageButton ==
    /\ pc = "body"
    /\ pressed = "image"
    /\ IF ~is_connected
       THEN /\ shown' = <<Msg("error", NotConnectedText)>>
            /\ pc' = "idle"
            /\ UNCHANGED <<files, max_retries, retry_count, last_error, calls>>
       ELSE IF ~model_loaded
       THEN /\ shown' = <<Msg("error", NotLoadedText)>>
            /\ pc' = "idle"
            /\ UNCHANGED <<files, max_retries, retry_count, last_error, calls>>
       ELSE /\ files' = files \cup { ImagePath(uploaded_file) }
            /\ EnterCall("image_call")
            /\ UNCHANGED shown
    /\ UNCHANGED <<pressed, uploaded_file, text_input, is_connected,
                   listed, response_content,
                   model_loaded, report, variant, gets, posts, sleeps,
                   preprocessings, attempts, lastFailure>>

\* Lines 341-350: the text button handler up to the orchestrator call.
TextButton ==
    /\ pc = "body"
    /\ pressed = "text"
    /\ IF Strip(text_input) = <<>>
       THEN /\ shown' = <<Msg("warning", EmptyTextText)>>
            /\ pc' = "idle"
            /\ UNCHANGED <<max_retries, retry_count, last_error, calls>>
       ELSE IF ~is_connected
       THEN /\ shown' = <<Msg("error", NotConnectedText)>>
            /\ pc' = "idle"
            /\ UNCHANGED <<max_retries, retry_count, last_error, calls>>
       ELSE IF ~model_loaded
       THEN /\ shown' = <<Msg("error", NotLoadedText)>>
            /\ pc' = "idle"
            /\ UNCHANGED <<max_retries, retry_count, last_error, calls>>
       ELSE /\ EnterCall("text_call")
            /\ UNCHANGED shown
    /\ UNCHANGED <<pressed, uploaded_file, text_input, is_connected,
                   listed, response_content,
                   model_loaded, report, variant, files, gets, posts, sleeps,
                   preprocessings, attempts, lastFailure>>

\* Line 214: the text loop sleeps only when another attempt follows.
TextSleeps(rc, mr) == rc <= mr

\* Mutant of ImageHandles: the catch-all clause of line 148 is missing.
ImageHandlesNetworkOnly(kind) ==
    kind \in { "ConnectionError", "ConnectTimeout", "ReadTimeout" }

\* Lines 144-149: the except clauses of analyze_medical_image.  Everything
\* an attempt can raise derives from Exception.
ImageHandles(kind) ==
    \/ kind \in { "ConnectionError", "ConnectTimeout" }
    \/ kind = "ReadTimeout"
    \/ kind \in { "RequestException", "badjson", "PreprocessError" }

\* Line 209: the except clause of analyze_medical_text.
TextHandles(kind) ==
    kind \in { "ConnectionError", "ConnectTimeout", "ReadTimeout",
               "RequestException", "badjson", "PreprocessError" }

\* Mutant of Preprocessed: the encoded image is computed once and kept.
PreprocessedOnce(n) == IF n = 0 THEN 1 ELSE n

\* Lines 78-97: the preprocessing stands inside the loop body.
Preprocessed(n) == n + 1

\* An exception no except clause takes leaves the orchestrator and the
\* handler: the script run ends with Streamlit's exception box.
Escapes ==
    /\ variant' = "raised"
    /\ pc' = "idle"
    /\ shown' = <<Msg("exception", <<"Traceback">>)>>
    /\ UNCHANGED <<report, response_content, last_error, lastFailure>>

\* Lines 78-152: one pass through the loop body of analyze_medical_image,
\* the finally block (151-152) included: it runs after the return value of
\* line 140 is computed as well as after a failure.
ImageAttempt ==
    /\ pc = "image_call"
    /\ LoopCondition(retry_count, max_retries)
    /\ attempts' = attempts + 1
    /\ preprocessings' = Preprocessed(preprocessings)
    /\ \E o \in (IF PreprocessOk(uploaded_file)
                 THEN PostOutcomes ELSE { PreprocessFailed }) :
         /\ posts' = IF o = PreprocessFailed THEN posts ELSE posts + 1
         /\ IF Usable(o)
            THEN /\ response_content' = o.text
                 /\ report' = Success(CleanReport(o.text))
                 /\ variant' = "Success"
                 /\ pc' = "image_returned"
                 /\ UNCHANGED <<last_error, lastFailure, shown>>
            ELSE IF o.kind = "response" \/ ImageHandles(o.kind)
            THEN /\ last_error' = RecordError(last_error, ImageError(o))
                 /\ lastFailure' = o
                 /\ UNCHANGED <<report, response_content, variant, pc, shown>>
            ELSE Escapes
    /\ retry_count' = retry_count + 1
    /\ sleeps' = sleeps + 1
    /\ UNCHANGED <<pressed, uploaded_file, text_input, is_connected,
                   model_loaded, listed, max_retries, files, gets, calls>>

\* Line 154.
ImageExhausted ==
    /\ pc = "image_call"
    /\ ~LoopCondition(retry_count, max_retries)
    /\ report' = Failure(last_error, max_retries)
    /\ variant' = "Failure"
    /\ pc' = "image_returned"
    /\ UNCHANGED <<pressed, uploaded_file, text_input, is_connected,
                   listed, response_content,
                   model_loaded, max_retries, retry_count, last_error, shown,
                   files, gets, posts, sleeps, preprocessings, calls, attempts,
                   lastFailure>>

\* Lines 161-214: one pass through the loop body of analyze_medical_text.
\* The return of line 205 leaves before lines 212-214.
TextAttempt ==
    /\ pc = "text_call"
    /\ LoopCondition(retry_count, max_retries)
    /\ attempts' = attempts + 1
    /\ posts' = posts + 1
    /\ \E o \in PostOutcomes :
         IF Usable(o)
         THEN /\ response_content' = o.text
              /\ report' = Success(o.text)
              /\ variant' = "Success"
              /\ pc' = "text_returned"
              /\ UNCHANGED <<last_error, lastFailure, retry_count, sleeps,
                             shown>>
         ELSE IF o.kind = "response" \/ TextHandles(o.kind)
         THEN /\ last_error' = RecordError(last_error, TextError(o))
              /\ lastFailure' = o
              /\ retry_count' = retry_count + 1
              /\ sleeps' = IF TextSleeps(retry_count + 1, max_retries)
                           THEN sleeps + 1 ELSE sleeps
              /\ UNCHANGED <<report, response_content, variant, pc, shown>>
         ELSE /\ Escapes
              /\ UNCHANGED <<retry_count, sleeps>>
    /\ UNCHANGED <<pressed, uploaded_file, text_input, is_connected,
                   model_loaded, listed, max_retries, files, gets,
                   preprocessings, calls>>

\* Line 216.
TextExhausted ==
    /\ pc = "text_call"
    /\ ~LoopCondition(retry_count, max_retries)
    /\ report' = Failure(last_error, max_retries)
    /\ variant' = "Failure"
    /\ pc' = "text_returned"
    /\ UNCHANGED <<pressed, uploaded_file, text_input, is_connected,
                   listed, response_content,
                   model_loaded, max_retries, retry_count, last_error, shown,
                   files, gets, posts, sleeps, preprocessings, calls, attempts,
                   lastFailure>>

\* Lines 313-318 and 352-357: what the handler shows for a returned string.
Render(r) ==
    IF LooksLikeError(r)
    THEN <<Msg("error", r), Msg("info", TimeoutHint)>>
    ELSE <<Msg("subheader", <<"Report">>), Msg("markdown", r)>>

\* Lines 312-322: the image handler after the orchestrator returned.
ImageRender ==
    /\ pc = "image_returned"
    /\ shown' = Render(report)
    /\ files' = CleanUp(files, ImagePath(uploaded_file))
    /\ pc' = "idle"
    /\ UNCHANGED <<pressed, uploaded_file, text_input, is_connected,
                   listed, response_content,
                   model_loaded, max_retries, retry_count, last_error, report,
                   variant, gets, posts, sleeps, preprocessings, calls,
                   attempts, lastFailure>>

\* Lines 352-357: the text handler after the orchestrator returned.
TextRender ==
    /\ pc = "text_returned"
    /\ shown' = Render(report)
    /\ pc' = "idle"
    /\ UNCHANGED <<pressed, uploaded_file, text_input, is_connected,
                   listed, response_content,
                   model_loaded, max_retries, retry_count, last_error, report,
                   variant, files, gets, posts, sleeps, preprocessings, calls,
                   attempts, lastFailure>>

Next ==
    \/ PressImageButton
    \/ PressTextButton
    \/ Rerun
    \/ Probe1
    \/ Probe2
    \/ NoButton
    \/ ImageButton
    \/ TextButton
    \/ ImageAttempt
    \/ ImageExhausted
    \/ TextAttempt
    \/ TextExhausted
    \/ ImageRender
    \/ TextRender

Spec == Init /\ [][Next]_vars

\* The interpreter keeps running a loop it has entered: an enabled pass
\* through the loop body, and the return after it, are eventually taken.
FairSpec ==
    /\ Spec
    /\ WF_vars(ImageAttempt)
    /\ WF_vars(ImageExhausted)
    /\ WF_vars(TextAttempt)
    /\ WF_vars(TextExhausted)

\* ----------------------------------------------------------------- claims
Returned == pc \in { "image_returned", "text_returned" }

Blank(t) == \A i \in 1..Len(t) : t[i] = " "

\* The message the most recent failed attempt stands for.
ExpectedError ==
    IF pressed = "image" THEN ImageError(lastFailure) ELSE TextError(lastFailure)

\* Positions (1-based) at which the marker stands in the 200 answer.
MarkerAt ==
    { i \in 1..Len(response_content) :
        /\ i + Len(ReportMarker) - 1 <= Len(response_content)
        /\ \A j \in 1..Len(ReportMarker) :
             response_content[i + j - 1] = ReportMarker[j] }

\* C1 as stated: when every attempt of a call failed, exactly
\* max_retries + 1 POSTs were issued and the result is a Failure.
C1_ExactlyMaxRetriesPlusOnePosts ==
    (Returned /\ variant = "Failure") => posts = max_retries + 1

\* C1 amended: a call stops at the first usable 200; when every attempt
\* failed the result is a Failure after exactly max_retries + 1 attempts,
\* each of which issued one POST, except the attempts of
\* analyze_medical_image whose preprocessing raised, which issued none.
C1_RetryBudget ==
    /\ pc \in { "image_call", "text_call" } =>
         /\ variant = "none"
         /\ attempts <= max_retries + 1
    /\ (Returned /\ variant = "Success") =>
         /\ attempts <= max_retries + 1
         /\ posts = attempts
    /\ (Returned /\ variant = "Failure") =>
         /\ attempts = max_retries + 1
         /\ posts = IF pressed = "image"
                       /\ ~(uploaded_file.decodable
                            /\ NewWidth * uploaded_file.height
                                 >= uploaded_file.width)
                    THEN 0 ELSE attempts
    /\ Returned => variant \in { "Success", "Failure" }

C1_Witness ==
    /\ Returned
    /\ variant = "Failure"
    /\ max_retries = 2
    /\ posts = 3
    /\ lastFailure.kind = "ReadTimeout"

\* C2 as stated: the Failure carries the last failed attempt's message
\* and the number of attempts made.
C2_FailureCarriesAttemptCount ==
    (Returned /\ variant = "Failure") =>
        report = ExpectedError \o <<" (after ", IntText(attempts), " retries)">>

\* C2 amended: the Failure carries the last failed attempt's message and
\* max_retries, which is one less than the number of attempts made.
C2_FailureCarriesRetryCount ==
    (Returned /\ variant = "Failure") =>
        /\ report = ExpectedError
                      \o <<" (after ", IntText(attempts - 1), " retries)">>
        /\ attempts - 1 = max_retries

C2_Witness ==
    /\ Returned
    /\ variant = "Failure"
    /\ attempts = 3
    /\ lastFailure.kind = "response"
    /\ lastFailure.status = 500
    /\ report = <<CrossMark, " Error: HTTP ", "500", " - ", "b", " (after ",
                  "2", " retries)">>

\* C3: the image report is the 200 text from the first marker on, or the
\* whole text when there is no marker; the text report is the 200 text.
C3_ReportExtraction ==
    (Returned /\ variant = "Success") =>
        IF pressed = "image" /\ MarkerAt # {}
        THEN \E i \in MarkerAt :
               /\ \A j \in MarkerAt : i <= j
               /\ Len(report) = Len(response_content) - i + 1
               /\ \A k \in 1..Len(report) :
                    report[k] = response_content[i + k - 1]
        ELSE report = response_content

C3_Witness ==
    /\ pc = "image_returned"
    /\ variant = "Success"
    /\ response_content = <<"a">> \o ReportMarker \o ReportMarker
    /\ report = ReportMarker \o ReportMarker

\* C4: analyze_medical_image lets no error escape, makes at most
\* max_retries + 1 attempts and, once entered, returns a Success or a
\* Failure.
C4_ImageCallReturns ==
    /\ [](variant # "raised")
    /\ [](pressed = "image" => attempts <= max_retries + 1)
    /\ (pc = "image_call") ~>
         (pc = "image_returned" /\ variant \in { "Success", "Failure" })

C4_Witness ==
    /\ pc = "image_returned"
    /\ variant = "Failure"
    /\ lastFailure.kind = "badjson"
    /\ attempts = max_retries + 1

\* C5 as stated: the handler shows an error exactly when the orchestrator
\* ended in Failure and a report exactly when it ended in Success.
C5_RenderedByVariant ==
    (pc = "idle" /\ variant \in { "Success", "Failure" }) =>
        /\ (shown[1].widget = "error") <=> (variant = "Failure")
        /\ (shown[Len(shown)].widget = "markdown") <=> (variant = "Success")

\* C6: once the image handler has run, no staged file is left.
C6_TempFileRemoved ==
    /\ pc = "idle" => files = {}
    /\ files # {} => pc \in { "image_call", "image_returned" }

C6_Witness ==
    /\ pc = "idle"
    /\ pressed = "image"
    /\ calls = 1
    /\ variant = "Failure"
    /\ files = {}

\* C7 as stated: a blank text submission makes no HTTP request at all.
C7_NoHttpAtAll ==
    (pc = "idle" /\ pressed = "text" /\ Blank(text_input)) =>
        gets = 0 /\ posts = 0 /\ calls = 0

\* C7 amended: a blank text submission issues no generation POST and
\* does not invoke analyze_medical_text; the two liveness GETs of the page
\* load are made all the same.
C7_BlankTextRejected ==
    (pressed = "text" /\ Blank(text_input)) =>
        /\ posts = 0
        /\ calls = 0
        /\ pc = "idle" =>
             /\ gets = 2
             /\ shown = <<Msg("warning", EmptyTextText)>>

C7_Witness ==
    /\ pc = "idle"
    /\ pressed = "text"
    /\ text_input = <<" ", " ">>
    /\ is_connected
    /\ model_loaded
    /\ gets = 2
    /\ posts = 0

\* C8 as stated: one call preprocesses the image exactly once.
C8_PreprocessedOnce ==
    pc = "image_returned" => preprocessings = 1

\* C8 amended: every attempt of analyze_medical_image starts with the
\* preprocessing, ahead of that attempt's POST.
C8_PreprocessedEveryAttempt ==
    /\ preprocessings = (IF pressed = "image" THEN attempts ELSE 0)
    /\ pressed = "image" => posts <= preprocessings

C8_Witness ==
    /\ pc = "image_returned"
    /\ attempts = 3
    /\ preprocessings = 3
    /\ posts = 3

\* C9 as stated: a call takes one delay less than it makes attempts.
C9_DelaysBetweenAttempts ==
    Returned => sleeps = attempts - 1

\* C10 as stated: with the server disconnected or the model not listed a
\* button press posts nothing, stages nothing and shows one error; an
\* orchestrator runs only when both checks passed.
C10_SingleError ==
    /\ (pc = "idle" /\ pressed \in { "image", "text" }
          /\ (~is_connected \/ ~model_loaded)) =>
         /\ posts = 0
         /\ calls = 0
         /\ files = {}
         /\ Len(shown) = 1
         /\ shown[1].widget = "error"
    /\ calls > 0 => is_connected /\ model_loaded

\* C10 amended: as stated, except that the text handler looks at the text
\* first: for blank text the one message shown is the empty-input warning.
C10_PreconditionsChecked ==
    /\ model_loaded = listed
    /\ (pc = "idle" /\ pressed \in { "image", "text" }
          /\ (~is_connected \/ ~model_loaded)) =>
         /\ posts = 0
         /\ calls = 0
         /\ files = {}
         /\ shown = IF pressed = "text" /\ Blank(text_input)
                    THEN <<Msg("warning", EmptyTextText)>>
                    ELSE IF ~is_connected
                    THEN <<Msg("error", NotConnectedText)>>
                    ELSE <<Msg("error", NotLoadedText)>>
    /\ calls > 0 => is_connected /\ model_loaded

C10_Witness ==
    /\ pc = "idle"
    /\ pressed = "image"
    /\ is_connected
    /\ ~model_loaded
    /\ shown = <<Msg("error", NotLoadedText)>>

====
